---- MODULE Spec2Model ----
(***************************************************************************)
(* A model of keep/providers/datadog_provider/datadog_provider.py:         *)
(* the Datadog provider's two alert normalization paths (_get_alerts for   *)
(* polled events, format_alert for webhook payloads), scope validation,    *)
(* webhook provisioning and the direct action calls.                       *)
(*                                                                         *)
(* Conventions.  A Python str that the code splits or strips is a sequence *)
(* of one-character strings; a str that is only carried around is a TLA+   *)
(* string.  A Python dict (and a vendor model object) is a function whose  *)
(* DOMAIN is the set of keys present, so dict.get(k, d) is Get(d_, k, d).  *)
(* None in a str-valued field of an AlertDto is the string "None".         *)
(***************************************************************************)
EXTENDS Integers, Sequences, FiniteSets, TLC

VARIABLES
    \* _get_alerts
    pc,                 \* position of the _get_alerts call
    events,             \* results.get("events", []) of list_events
    i,                  \* index of the event the for loop is at
    formatted_alerts,   \* the list _get_alerts returns
    skipped,            \* ids of the events logged by "Could not parse alert event"
    \* two alerts, each produced by one of the two normalization paths
    slot,
    \* format_alert, called more than once with one payload object
    payload,            \* the payload dict the caller holds
    received,           \* the payload as the caller received it
    alerts,             \* what each format_alert(payload) call returned or raised
    \* validate_scopes
    vpc,                \* position of the validate_scopes call
    si,                 \* index in PROVIDER_SCOPES of the scope the for loop is at
    scopes,             \* the dict validate_scopes returns
    probe,              \* what the vendor answered to each scope's probe so far
    example_monitors,   \* vendor side: the "Example-Monitor" monitors that exist
    deletes_failed,     \* delete_monitor calls of the probe that raised
    validation_webhook, \* vendor side: keep-webhook-scope-validation exists
    runs,               \* validate_scopes calls started
    \* mute_monitor, unmute_monitor, deploy_alert
    apc,                \* position of the action call
    request,            \* the vendor call the action has issued
    vendor_calls,       \* vendor calls the action has made
    failure,            \* the exception the caller of the action receives
    \* setup_webhook, called by concurrent callers
    webhooks,           \* vendor side: the webhook registrations
    monitor_message,    \* vendor side: the message of each monitor
    hpc,                \* position of each caller's setup_webhook call
    args,               \* the arguments of each caller's call
    issued,             \* the vendor calls each call has made, with the answers
    preceding,          \* the callers whose call had returned when the call began
    monitors,           \* the list list_monitors returned to each call
    mi                  \* index of the monitor each call's for loop is at

alertVars == <<pc, events, i, formatted_alerts, skipped>>
pairVars == <<slot>>
formatVars == <<payload, received, alerts>>
scopeVars ==
    <<vpc, si, scopes, probe, example_monitors, deletes_failed, validation_webhook, runs>>
actionVars == <<apc, request, vendor_calls, failure>>
hookVars == <<webhooks, monitor_message, hpc, args, issued, preceding, monitors, mi>>
vars == <<alertVars, pairVars, formatVars, scopeVars, actionVars, hookVars>>

notAlertVars == <<pairVars, formatVars, scopeVars, actionVars, hookVars>>
notPairVars == <<alertVars, formatVars, scopeVars, actionVars, hookVars>>
notFormatVars == <<alertVars, pairVars, scopeVars, actionVars, hookVars>>
notScopeVars == <<alertVars, pairVars, formatVars, actionVars, hookVars>>
notActionVars == <<alertVars, pairVars, formatVars, scopeVars, hookVars>>
notHookVars == <<alertVars, pairVars, formatVars, scopeVars, actionVars>>

---------------------------------------------------------------------------
(* Bounds *)

MaxBatch == 2       \* most events list_events returns in one batch

---------------------------------------------------------------------------
(* Python str and dict operations, as the code uses them *)

\* d.get(k, default)
Get(d, k, default) == IF k \in DOMAIN d THEN d[k] ELSE default

\* the dict d without key k (d.pop(k, None) leaves this behind)
Without(d, k) == [x \in DOMAIN d \ {k} |-> d[x]]

\* c in s, for a one-character c
Contains(s, c) == \E n \in 1..Len(s) : s[n] = c

\* s.find(c) + 1 (the first position of c), for a c that occurs in s
IndexOf(s, c) == CHOOSE n \in 1..Len(s) : s[n] = c /\ \A m \in 1..(n - 1) : s[m] # c

\* s.split(c, maxsplit); maxsplit = -1 is s.split(c)
RECURSIVE Split(_, _, _)
Split(s, c, maxsplit) ==
    IF maxsplit = 0 \/ ~Contains(s, c)
    THEN <<s>>
    ELSE LET n == IndexOf(s, c)
         IN  <<SubSeq(s, 1, n - 1)>> \o Split(SubSeq(s, n + 1, Len(s)), c, maxsplit - 1)

\* s.lstrip(c)
RECURSIVE LStrip(_, _)
LStrip(s, c) == IF s # <<>> /\ Head(s) = c THEN LStrip(Tail(s), c) ELSE s

\* s.rstrip(c)
RECURSIVE RStrip(_, _)
RStrip(s, c) ==
    IF s # <<>> /\ s[Len(s)] = c THEN RStrip(SubSeq(s, 1, Len(s) - 1), c) ELSE s

\* c.join(parts)
RECURSIVE Join(_, _)
Join(parts, c) ==
    IF parts = <<>> THEN <<>>
    ELSE IF Len(parts) = 1 THEN parts[1]
    ELSE parts[1] \o <<c>> \o Join(Tail(parts), c)

\* {k: v for k, v in pairs}: a later pair overwrites an earlier one with its key
RECURSIVE DictOf(_)
DictOf(pairs) ==
    IF pairs = <<>> THEN <<>>
    ELSE LET last == pairs[Len(pairs)]
         IN  (last[1] :> last[2]) @@ DictOf(SubSeq(pairs, 1, Len(pairs) - 1))

\* xs after xs.remove(x): without the first occurrence of x (x occurs in xs)
RECURSIVE Remove(_, _)
Remove(xs, x) == IF Head(xs) = x THEN Tail(xs) ELSE <<Head(xs)>> \o Remove(Tail(xs), x)

\* [F(x) for x in xs]
Map(xs, F(_)) == [n \in 1..Len(xs) |-> F(xs[n])]

InSeq(xs, x) == \E n \in 1..Len(xs) : xs[n] = x

\* the sequences over S of length at most n
SeqsUpTo(S, n) == UNION {[1..m -> S] : m \in 0..n}

None == "None"

---------------------------------------------------------------------------
(* The texts the model reads character by character *)

P1 == <<"P", "1">>
P2 == <<"P", "2">>
P3 == <<"P", "3">>
P4 == <<"P", "4">>
P9 == <<"P", "9">>
Bracketed(s) == <<"[">> \o s \o <<"]">>
Alert == <<"A", "l", "e", "r", "t">>
Muted == <<"M", "u", "t", "e", "d">>
CPUhigh == <<"C", "P", "U", " ", "h", "i", "g", "h">>
Star == <<"*">>
monitor == <<"m", "o", "n", "i", "t", "o", "r">>
env == <<"e", "n", "v">>
prod == <<"p", "r", "o", "d">>
team == <<"t", "e", "a", "m">>
sre == <<"s", "r", "e">>
g1 == <<"g", "1">>
g2 == <<"g", "2">>

---------------------------------------------------------------------------
(* Alert fingerprint (keep.providers.base.base_provider, not in src/) *)

\* BaseProvider.get_alert_fingerprint: combines the values of exactly the
\* given fields of the alert, in the given order
get_alert_fingerprint(alert, fields) ==
    [n \in 1..Len(fields) |-> Get(alert, fields[n], None)]

FINGERPRINT_FIELDS_WithStatus == <<"groups", "monitor_id", "status">>

FINGERPRINT_FIELDS == <<"groups", "monitor_id">>

\* self.fingerprint_fields, which BaseProvider sets from FINGERPRINT_FIELDS
fingerprint_fields == FINGERPRINT_FIELDS

---------------------------------------------------------------------------
(* Severity mapping *)

__get_parsed_severity(priority) ==
    IF priority = P1 THEN "critical"
    ELSE IF priority = P2 THEN "high"
    ELSE IF priority = P3 THEN "medium"
    ELSE IF priority = P4 THEN "low"
    ELSE None

---------------------------------------------------------------------------
(* Polled path: the body of the for loop of _get_alerts *)

\* a call that raised
Raised == [raised |-> TRUE]

\* a call that returned the alert
Returned(alert) == [raised |-> FALSE, alert |-> alert]

\* any([downtime for downtime in monitor.matching_downtimes
\*      if downtime.groups == event.monitor_groups or downtime.scope == ["*"]])
is_muted_GroupsOnly(mon, event) ==
    \E n \in 1..Len(mon.matching_downtimes) :
        mon.matching_downtimes[n].groups = event.monitor_groups

is_muted(mon, event) ==
    \E n \in 1..Len(mon.matching_downtimes) :
        \/ mon.matching_downtimes[n].groups = event.monitor_groups
        \/ mon.matching_downtimes[n].scope = <<Star>>

HasColon(tag) == Contains(tag, ":")

SplitTag1(tag) == Split(tag, ":", 1)

\* what the try block does with one event: the alert it appends, or the
\* exception the except clause catches
PolledAlert(event, all_monitors) ==
    LET tags   == DictOf(Map(SelectSeq(event.tags, HasColon), SplitTag1))
        parts  == Split(event.title, " ", 2)
        \* all_monitors.get(event.monitor_id) is None for an unknown id
        found  == event.monitor_id \in DOMAIN all_monitors
        mon    == all_monitors[event.monitor_id]
    IN  IF Len(parts) # 3 THEN Raised                \* ValueError: unpacking
        ELSE IF "date_happened" \notin DOMAIN event
        THEN Raised                                  \* TypeError: fromtimestamp(None)
        ELSE IF ~found THEN Raised                   \* AttributeError: None.matching_downtimes
        ELSE LET severity == __get_parsed_severity(RStrip(LStrip(parts[1], "["), "]"))
                 status   == RStrip(LStrip(parts[2], "["), "]")
                 alert    ==
                     [id           |-> event.id,
                      name         |-> parts[3],
                      status       |-> IF ~is_muted(mon, event) THEN status ELSE Muted,
                      lastReceived |-> <<"isoformat", event.date_happened>>,
                      severity     |-> severity,
                      message      |-> event.text,
                      monitor_id   |-> event.monitor_id,
                      groups       |-> event.monitor_groups,
                      source       |-> <<"datadog">>,
                      tags         |-> tags,
                      created_by   |-> IF "creator" \in DOMAIN mon
                                       THEN mon.creator.email ELSE None]
             IN  Returned(alert @@
                     ("fingerprint" :> get_alert_fingerprint(alert, fingerprint_fields)))

---------------------------------------------------------------------------
(* Webhook path: format_alert *)

SplitTag(tag) == Split(tag, ":", -1)

IsPair(parts) == Len(parts) = 2

\* tags_list after event.get("tags", "").split(",")
TagsList(event) == Split(Get(event, "tags", <<>>), ",", -1)

\* the alert format_alert returns for the payload, or the exception it raises
format_alert(event) ==
    LET tags_list == TagsList(event)
    IN  IF ~InSeq(tags_list, monitor) THEN Raised       \* ValueError: list.remove(x)
        ELSE LET pairs == Map(Remove(tags_list, monitor), SplitTag)
             IN  IF \E n \in DOMAIN pairs : ~IsPair(pairs[n])
                 THEN Raised                             \* ValueError: unpacking k, v
                 ELSE IF "last_updated" \notin DOMAIN event
                 THEN Raised                             \* TypeError: int(None)
                 ELSE IF "title" \notin DOMAIN event
                 THEN Raised                             \* AttributeError: None.split
                 ELSE LET parts == Split(event.title, " ", 2)
                      IN  IF Len(parts) # 3 THEN Raised  \* ValueError: unpacking
                          ELSE LET scopes_ == Get(event, "scopes", <<>>)
                                   groups  == IF scopes_ = <<>> THEN <<Star>>
                                              ELSE Split(scopes_, ",", -1)
                                   alert  ==
                                       [id           |-> Get(event, "id", None),
                                        name         |-> parts[3],
                                        status       |-> RStrip(LStrip(parts[2], "["), "]"),
                                        lastReceived |-> <<"str", event.last_updated \div 1000,
                                                           event.last_updated % 1000>>,
                                        source       |-> <<"datadog">>,
                                        message      |-> Get(event, "body", None),
                                        groups       |-> groups,
                                        severity     |-> __get_parsed_severity(
                                                             Get(event, "severity", parts[1])),
                                        url          |-> Get(event, "url", None),
                                        tags         |-> DictOf(pairs),
                                        monitor_id   |-> Get(event, "monitor_id", None)]
                               IN  Returned(alert @@
                                       ("fingerprint" :>
                                            get_alert_fingerprint(alert, FINGERPRINT_FIELDS)))

\* the payload object after format_alert(event): event.pop("url", None) has
\* run unless an earlier line raised
format_alert_event(event) ==
    IF format_alert(event).raised THEN event ELSE Without(event, "url")

---------------------------------------------------------------------------
(* The vendor's monitors and events *)

Downtime(groups, scope) == [groups |-> groups, scope |-> scope]

\* monitors_api.list_monitors(with_downtimes=True): one monitor muted for the
\* group g1, one muted by a wildcard downtime and without a creator, one whose
\* only downtime is for the groups g2, g1 in that order
VendorMonitors ==
    (1 :> [id |-> 1, creator |-> [email |-> "a@keep"],
           matching_downtimes |-> <<Downtime(<<g1>>, <<g1>>)>>])
    @@ (2 :> [id |-> 2,
              matching_downtimes |-> <<Downtime(<<>>, <<Star>>)>>])
    @@ (3 :> [id |-> 3, creator |-> [email |-> "b@keep"],
              matching_downtimes |-> <<Downtime(<<g2, g1>>, <<g2, g1>>)>>])

\* the monitor ids an event may carry: 4 is a monitor list_monitors did not return
MonitorIds == {1, 2, 3, 4}

GroupLists == {<<>>, <<g1>>, <<g1, g2>>}

Title(sev, status, text) == Bracketed(sev) \o <<" ">> \o Bracketed(status) \o <<" ">> \o text

\* "[P1] [Alert] CPU high" and a title of two parts only
BatchTitles == {Title(P1, Alert, CPUhigh), Bracketed(P1) \o <<" ">> \o Bracketed(Alert)}

EventTags == <<env \o <<":">> \o prod, monitor, team \o <<":">> \o sre \o <<":">> \o g1>>

\* the events of the given titles: with and without date_happened
EventsOf(titles) ==
    {[title |-> t, tags |-> EventTags, monitor_id |-> m, monitor_groups |-> g,
      text |-> "body"] @@ d :
        t \in titles, m \in MonitorIds, g \in GroupLists,
        d \in {<<>>, [date_happened |-> 60]}}

\* the vendor numbers the events of a batch
WithIds(batch) == [n \in 1..Len(batch) |-> batch[n] @@ [id |-> n]]

---------------------------------------------------------------------------
(* _get_alerts *)

InitAlerts ==
    /\ pc = "start"
    /\ events = <<>>
    /\ i = 1
    /\ formatted_alerts = <<>>
    /\ skipped = <<>>

\* list_monitors and list_events answer
ListEvents ==
    /\ pc = "start"
    /\ \E batch \in SeqsUpTo(EventsOf(BatchTitles), MaxBatch) : events' = WithIds(batch)
    /\ pc' = "loop"
    /\ UNCHANGED <<i, formatted_alerts, skipped>> /\ UNCHANGED notAlertVars

\* list_monitors or list_events raises: nothing catches it
ListFails ==
    /\ pc = "start"
    /\ pc' = "raised"
    /\ UNCHANGED <<events, i, formatted_alerts, skipped>> /\ UNCHANGED notAlertVars

\* the loop body without the try block: a failure leaves _get_alerts
NormalizeEvent_NoCatch ==
    /\ pc = "loop"
    /\ i <= Len(events)
    /\ LET r == PolledAlert(events[i], VendorMonitors)
       IN  IF r.raised
           THEN pc' = "raised" /\ UNCHANGED <<formatted_alerts, i>>
           ELSE /\ formatted_alerts' = Append(formatted_alerts, r.alert)
                /\ i' = i + 1
                /\ pc' = pc
    /\ UNCHANGED <<events, skipped>> /\ UNCHANGED notAlertVars

\* one turn of the for loop: append the alert, or log the event and continue
NormalizeEvent ==
    /\ pc = "loop"
    /\ i <= Len(events)
    /\ LET r == PolledAlert(events[i], VendorMonitors)
       IN  IF r.raised
           THEN /\ skipped' = Append(skipped, events[i].id)
                /\ UNCHANGED formatted_alerts
           ELSE /\ formatted_alerts' = Append(formatted_alerts, r.alert)
                /\ UNCHANGED skipped
    /\ i' = i + 1
    /\ UNCHANGED <<pc, events>> /\ UNCHANGED notAlertVars

\* return formatted_alerts
ReturnAlerts ==
    /\ pc = "loop"
    /\ i > Len(events)
    /\ pc' = "done"
    /\ UNCHANGED <<events, i, formatted_alerts, skipped>> /\ UNCHANGED notAlertVars

NextAlerts == ListEvents \/ ListFails \/ NormalizeEvent \/ ReturnAlerts

---------------------------------------------------------------------------
(* Claims about _get_alerts *)

\* the per-event failures of steps 1-8: a title of fewer than three
\* space-separated parts, no usable timestamp, no owning monitor to read the
\* downtimes of
Malformed(e) ==
    \/ Cardinality({n \in 1..Len(e.title) : e.title[n] = " "}) < 2
    \/ "date_happened" \notin DOMAIN e
    \/ e.monitor_id \notin DOMAIN VendorMonitors

WellFormed(e) == ~Malformed(e)

IdOf(x) == x.id

\* C1: a bad event never makes _get_alerts raise, and a batch of N events of
\* which k are malformed yields exactly N - k alerts, one per well-formed
\* event, in the order the events were received (and k logged skips)
C1_BadEventNeverAbortsBatch ==
    /\ pc = "raised" => events = <<>>
    /\ pc = "done" =>
        /\ Len(formatted_alerts) = Len(events) - Len(SelectSeq(events, Malformed))
        /\ Map(formatted_alerts, IdOf) = Map(SelectSeq(events, WellFormed), IdOf)
        /\ Map(SelectSeq(events, Malformed), IdOf) = skipped

\* a returned batch whose first event is malformed and whose second is not
C1_Witness ==
    /\ pc = "done"
    /\ Len(events) = 2
    /\ Malformed(events[1]) /\ WellFormed(events[2])
    /\ Len(formatted_alerts) = 1 /\ formatted_alerts[1].id = 2

\* the monitor of the event has a matching downtime for exactly the event's
\* groups, or one whose scope is the wildcard
HasMutingDowntime(e) ==
    LET downtimes == VendorMonitors[e.monitor_id].matching_downtimes
    IN  \E n \in DOMAIN downtimes :
            downtimes[n].groups = e.monitor_groups \/ downtimes[n].scope = <<Star>>

\* C7: the alert of an event whose monitor is resolved has status "Muted" if
\* and only if the monitor has a matching downtime with the event's groups or
\* with the wildcard scope; otherwise its status is the token parsed from the
\* title
C7_MutedRule ==
    \A n \in DOMAIN formatted_alerts :
        LET a == formatted_alerts[n]
            e == events[a.id]
        IN  /\ a.status = Muted <=> HasMutingDowntime(e)
            /\ ~HasMutingDowntime(e) =>
                   \A st \in {Alert} : e.title = Title(P1, st, CPUhigh) => a.status = st

\* a batch with an alert muted by the wildcard downtime alone and an alert
\* that keeps its parsed status
C7_Witness ==
    /\ pc = "done"
    /\ Len(formatted_alerts) = 2
    /\ formatted_alerts[1].status = Muted
    /\ events[formatted_alerts[1].id].monitor_id = 2
    /\ events[formatted_alerts[1].id].monitor_groups = <<g1>>
    /\ formatted_alerts[2].status = Alert

\* the event has a title of three parts and a timestamp, whatever its monitor
OtherwiseWellFormed(e) ==
    /\ Cardinality({n \in 1..Len(e.title) : e.title[n] = " "}) >= 2
    /\ "date_happened" \in DOMAIN e

\* the monitor of the event is in the id-to-monitor mapping and has a creator
CreatorResolvable(e) ==
    /\ e.monitor_id \in DOMAIN VendorMonitors
    /\ "creator" \in DOMAIN VendorMonitors[e.monitor_id]

\* C13: every otherwise well-formed polled event is normalized into an alert,
\* also when its monitor_id is not in the id-to-monitor mapping or its
\* monitor has no creator; created_by is the creator's email when the
\* monitor and its creator are resolvable, and null otherwise
C13_UnresolvedMonitorStillNormalized ==
    pc = "done" =>
        /\ \A n \in DOMAIN events :
               OtherwiseWellFormed(events[n]) =>
                   \E k \in DOMAIN formatted_alerts : formatted_alerts[k].id = events[n].id
        /\ \A k \in DOMAIN formatted_alerts :
               LET e == events[formatted_alerts[k].id]
               IN  formatted_alerts[k].created_by =
                       IF CreatorResolvable(e)
                       THEN VendorMonitors[e.monitor_id].creator.email
                       ELSE None

---------------------------------------------------------------------------
(* Two alerts, each normalized by one of the two paths *)

SevCodes == {P1, P2, P3, P4, P9}

\* "[S] [Alert] CPU high" for each code S, and a title of two parts only
Titles ==
    {Title(sev, Alert, CPUhigh) : sev \in SevCodes}
    \cup {Bracketed(P1) \o <<" ">> \o Bracketed(Alert)}

\* the key with one of the values, or the key left out when absent is allowed
Field(key, values) == {key :> v : v \in values}

Optional(key, values) == {<<>>} \cup Field(key, values)

TagsWithMonitor == monitor \o <<",">> \o env \o <<":">> \o prod \o <<",">> \o team \o <<":">> \o sre

TagsWithoutMonitor == env \o <<":">> \o prod \o <<",">> \o team \o <<":">> \o sre

\* the payloads the registered WEBHOOK_PAYLOAD template produces
Payloads ==
    {[id |-> "e1", body |-> "body", last_updated |-> 60500, title |-> t, monitor_id |-> m]
         @@ tg @@ sv @@ sc @@ u :
        t \in Titles, m \in {1, 2},
        tg \in Optional("tags", {TagsWithMonitor, TagsWithoutMonitor}),
        sv \in Optional("severity", {P2}),
        sc \in Field("scopes", {<<>>, g1, Join(<<g1, g2>>, ",")}),
        u \in Optional("url", {"https://app.datadoghq.com/e1"})}

Slots == {"A", "B"}

Empty == [path |-> "none"]

InitPair == slot = [k \in Slots |-> Empty]

\* the polled path normalizes one event into slot k
Poll(k) ==
    /\ slot[k] = Empty
    /\ \E e \in EventsOf(Titles) :
        LET event == e @@ [id |-> 1]
        IN  slot' = [slot EXCEPT ![k] =
                        [path |-> "polled", event |-> event,
                         result |-> PolledAlert(event, VendorMonitors)]]
    /\ UNCHANGED notPairVars

\* format_alert normalizes one payload into slot k
Hook(k) ==
    /\ slot[k] = Empty
    /\ \E event \in Payloads :
        slot' = [slot EXCEPT ![k] =
                    [path |-> "webhook", given |-> event,
                     event |-> format_alert_event(event),
                     result |-> format_alert(event)]]
    /\ UNCHANGED notPairVars

NextPair == \E k \in Slots : Poll(k) \/ Hook(k)

---------------------------------------------------------------------------
(* Claims about the two normalization paths *)

\* slot k holds an alert
Produced(k) == slot[k].path # "none" /\ ~slot[k].result.raised

AlertIn(k) == slot[k].result.alert

\* C2: two alerts, of either path, with equal groups and equal monitor_id
\* have equal fingerprints, whatever their other fields
C2_FingerprintOfGroupsAndMonitor ==
    \A j, k \in Slots :
        (/\ Produced(j) /\ Produced(k)
         /\ AlertIn(j).groups = AlertIn(k).groups
         /\ AlertIn(j).monitor_id = AlertIn(k).monitor_id)
        => AlertIn(j).fingerprint = AlertIn(k).fingerprint

\* a muted polled alert and a webhook alert of the same groups and monitor:
\* their status, tags, timestamp and url differ, their fingerprints do not
C2_Witness ==
    /\ Produced("A") /\ Produced("B")
    /\ slot["A"].path = "polled" /\ slot["B"].path = "webhook"
    /\ AlertIn("A").groups = AlertIn("B").groups
    /\ AlertIn("A").monitor_id = AlertIn("B").monitor_id
    /\ AlertIn("A").status # AlertIn("B").status
    /\ AlertIn("A").severity # AlertIn("B").severity
    /\ AlertIn("A").tags # AlertIn("B").tags
    /\ AlertIn("B").url # None
    /\ AlertIn("A").fingerprint = AlertIn("B").fingerprint

\* C3: the alert the polled path builds from an event and the alert the
\* webhook path builds from a payload with the same monitor_id and the event's
\* groups joined by commas in scopes have equal groups, equal monitor_id and
\* the same fingerprint, for every list of groups, the empty list included
C3_PathsConverge ==
    \A j, k \in Slots :
        (/\ Produced(j) /\ Produced(k)
         /\ slot[j].path = "polled" /\ slot[k].path = "webhook"
         /\ slot[k].given.monitor_id = slot[j].event.monitor_id
         /\ slot[k].given.scopes = Join(slot[j].event.monitor_groups, ","))
        => /\ AlertIn(j).groups = AlertIn(k).groups
           /\ AlertIn(j).monitor_id = AlertIn(k).monitor_id
           /\ AlertIn(j).fingerprint = AlertIn(k).fingerprint

\* the severity the title's code stands for
SeverityOf(code) ==
    CASE code = P1 -> "critical"
      [] code = P2 -> "high"
      [] code = P3 -> "medium"
      [] code = P4 -> "low"
      [] OTHER -> None

\* C8: for a title "[S] [STATUS] text" the polled path (event otherwise well
\* formed and not muted) and the webhook path (payload without a severity
\* field, tags parsable) both return name = text, status = STATUS and the
\* severity S stands for
C8_TitleParsingSameOnBothPaths ==
    \A k \in Slots : \A code \in SevCodes :
        (/\ slot[k].path # "none"
         /\ slot[k].event.title = Title(code, Alert, CPUhigh)
         /\ slot[k].path = "polled" =>
                WellFormed(slot[k].event) /\ ~HasMutingDowntime(slot[k].event)
         /\ slot[k].path = "webhook" =>
                /\ "severity" \notin DOMAIN slot[k].given
                /\ Get(slot[k].given, "tags", <<>>) = TagsWithMonitor)
        => /\ ~slot[k].result.raised
           /\ AlertIn(k).name = CPUhigh
           /\ AlertIn(k).status = Alert
           /\ AlertIn(k).severity = SeverityOf(code)

\* C9: a payload whose tags are comma-delimited key:value tokens, with or
\* without the token "monitor", is normalized (its title being well formed)
\* and its tags are exactly those key/value pairs
C9_WebhookTags ==
    \A k \in Slots :
        (/\ slot[k].path = "webhook"
         /\ Get(slot[k].given, "tags", <<>>) \in {TagsWithMonitor, TagsWithoutMonitor}
         /\ slot[k].given.title \in {Title(code, Alert, CPUhigh) : code \in SevCodes})
        => /\ ~slot[k].result.raised
           /\ AlertIn(k).tags = (env :> prod) @@ (team :> sre)

---------------------------------------------------------------------------
(* format_alert, called again with the payload object of an earlier call *)

MaxFormats == 2     \* most format_alert calls with one payload object

InitFormat ==
    /\ payload = <<>>
    /\ received = <<>>
    /\ alerts = <<>>

\* the caller receives a payload of the registered template
ReceivePayload ==
    /\ received = <<>>
    /\ \E event \in Payloads :
        /\ received' = event
        /\ payload' = event
    /\ UNCHANGED alerts
    /\ UNCHANGED notFormatVars

\* format_alert(payload): the call returns an alert or raises, and leaves the
\* payload object as event.pop("url", None) left it
FormatAlert ==
    /\ received # <<>>
    /\ Len(alerts) < MaxFormats
    /\ alerts' = Append(alerts, format_alert(payload))
    /\ payload' = format_alert_event(payload)
    /\ UNCHANGED received
    /\ UNCHANGED notFormatVars

NextFormat == ReceivePayload \/ FormatAlert

\* C14: format_alert does not modify the payload it is given, so that
\* normalizing one payload object twice gives two equal alerts (same url,
\* groups, monitor_id, tags and fingerprint)
C14_FormatAlertLeavesPayload ==
    /\ alerts # <<>> => payload = received
    /\ \A m, n \in DOMAIN alerts : alerts[m] = alerts[n]

---------------------------------------------------------------------------
(* validate_scopes *)

MaxRuns == 2        \* most validate_scopes calls in one behaviour

PROVIDER_SCOPES ==
    <<"events_read", "monitors_read", "monitors_write", "create_webhooks",
      "metrics_read", "logs_read">>

\* what the vendor answers to a call: success, or an ApiException with its
\* status and reason
Ok == [status |-> 200, reason |-> "OK"]

Forbidden == [status |-> 403, reason |-> "Forbidden"]

ApiExceptions == {Forbidden, [status |-> 409, reason |-> "Conflict"]}

Answers == {Ok} \cup ApiExceptions

InitScopes ==
    /\ vpc = "idle"
    /\ si = 1
    /\ scopes = <<>>
    /\ probe = <<>>
    /\ example_monitors = 0
    /\ deletes_failed = 0
    /\ validation_webhook = FALSE
    /\ runs = 0

\* validate_scopes is called: scopes = {}
StartValidate ==
    /\ vpc \in {"idle", "returned"}
    /\ runs < MaxRuns
    /\ runs' = runs + 1
    /\ vpc' = "loop"
    /\ si' = 1
    /\ scopes' = <<>>
    /\ probe' = <<>>
    /\ UNCHANGED <<example_monitors, deletes_failed, validation_webhook>>
    /\ UNCHANGED notScopeVars

\* the except clause without its continue: the line after the try block
\* records the scope as True whatever the probe met
Entry_NoContinue(scope, a) == "True"

\* scopes[scope.name] after a probe that met answer `a` (Ok when every call of
\* the probe succeeded): True, or str(e.reason) from the except clause.  The
\* create_webhooks probe raises only status 403 again.
Entry(scope, a) ==
    IF a = Ok THEN "True"
    ELSE IF scope = "create_webhooks" /\ a.status # 403 THEN "True"
    ELSE a.reason

\* the end of one turn of the for loop
Record(scope, a) ==
    /\ scopes' = (scope :> Entry(scope, a)) @@ scopes
    /\ probe' = (scope :> a) @@ probe
    /\ si' = si + 1

AtScope(name) == vpc = "loop" /\ si <= Len(PROVIDER_SCOPES) /\ PROVIDER_SCOPES[si] = name

\* the probes of one vendor call: list_events, list_monitors, query_metrics,
\* list_logs (through _query)
ProbeRead ==
    /\ \E name \in {"events_read", "monitors_read", "metrics_read", "logs_read"} :
        /\ AtScope(name)
        /\ \E a \in Answers : Record(name, a)
    /\ UNCHANGED <<vpc, example_monitors, deletes_failed, validation_webhook, runs>>
    /\ UNCHANGED notScopeVars

\* the monitors_write probe without its delete_monitor call
ProbeMonitorsWrite_NoDelete ==
    /\ AtScope("monitors_write")
    /\ \E created \in Answers :
        /\ Record("monitors_write", created)
        /\ example_monitors' = IF created = Ok THEN example_monitors + 1
                               ELSE example_monitors
    /\ UNCHANGED <<vpc, deletes_failed, validation_webhook, runs>>
    /\ UNCHANGED notScopeVars

\* monitors_write: create_monitor, then delete_monitor of the monitor created;
\* an ApiException of either call reaches the except clause of the loop
ProbeMonitorsWrite ==
    /\ AtScope("monitors_write")
    /\ \E created \in Answers :
        IF created # Ok
        THEN Record("monitors_write", created)
             /\ UNCHANGED <<example_monitors, deletes_failed>>
        ELSE \E deleted \in Answers :
                /\ Record("monitors_write", deleted)
                /\ example_monitors' = IF deleted = Ok THEN example_monitors
                                       ELSE example_monitors + 1
                /\ deletes_failed' = IF deleted = Ok THEN deletes_failed
                                     ELSE deletes_failed + 1
    /\ UNCHANGED <<vpc, validation_webhook, runs>>
    /\ UNCHANGED notScopeVars

\* create_webhooks: create_webhooks_integration of keep-webhook-scope-validation;
\* the vendor refuses a name that exists
ProbeCreateWebhooks ==
    /\ AtScope("create_webhooks")
    /\ \E a \in Answers :
        /\ validation_webhook => a # Ok
        /\ validation_webhook' = (validation_webhook \/ a = Ok)
        /\ Record("create_webhooks", a)
    /\ UNCHANGED <<vpc, example_monitors, deletes_failed, runs>>
    /\ UNCHANGED notScopeVars

\* return scopes
ReturnScopes ==
    /\ vpc = "loop"
    /\ si > Len(PROVIDER_SCOPES)
    /\ vpc' = "returned"
    /\ UNCHANGED <<si, scopes, probe, example_monitors, deletes_failed, validation_webhook, runs>>
    /\ UNCHANGED notScopeVars

NextScopes ==
    StartValidate \/ ProbeRead \/ ProbeMonitorsWrite \/ ProbeCreateWebhooks \/ ReturnScopes

\* C6: validate_scopes returns one entry for each of the six declared scopes;
\* the entry of a scope is True when its probe succeeded and the reason of
\* the failure when the probe was denied (status 403), whatever the other
\* probes met
C6_ScopesAlwaysAllReturned ==
    /\ vpc = "returned" =>
           DOMAIN scopes = {"events_read", "monitors_read", "monitors_write",
                            "create_webhooks", "metrics_read", "logs_read"}
    /\ \A name \in DOMAIN scopes :
        /\ probe[name] = Ok => scopes[name] = "True"
        /\ probe[name].status = 403 => scopes[name] = probe[name].reason
    /\ Cardinality(DOMAIN scopes) = si - 1

\* a returned validation in which two probes were denied and the probes
\* after each of them succeeded
C6_Witness ==
    /\ vpc = "returned"
    /\ scopes["monitors_read"] = "Forbidden"
    /\ scopes["monitors_write"] = "True"
    /\ scopes["create_webhooks"] = "Forbidden"
    /\ scopes["metrics_read"] = "True"
    /\ scopes["logs_read"] = "True"

\* C11 as stated: in every state after validate_scopes returns, no monitor
\* created by the monitors_write probe remains on the vendor side
C11_NoThrowawayMonitorRemains ==
    vpc = "returned" => example_monitors = 0

\* C11: the monitors the monitors_write probes leave on the vendor side are
\* those whose delete_monitor call failed: a probe whose create_monitor and
\* delete_monitor both succeeded leaves none, and a validation in which no
\* delete_monitor call failed leaves nothing but the
\* keep-webhook-scope-validation webhook
C11_ProbesCleanUpUnlessDeleteFails ==
    /\ example_monitors = deletes_failed
    /\ (vpc = "returned" /\ deletes_failed = 0) => example_monitors = 0

\* a returned validation whose monitors_write probe created and deleted its
\* monitor and whose create_webhooks probe left its webhook behind
C11_Witness ==
    /\ vpc = "returned"
    /\ probe["monitors_write"] = Ok
    /\ probe["create_webhooks"] = Ok
    /\ example_monitors = 0
    /\ validation_webhook

---------------------------------------------------------------------------
(* mute_monitor, unmute_monitor, deploy_alert *)

\* the ApiException of a failed vendor call: its status and the first of
\* body["errors"]
VendorErrors ==
    {[status |-> 400, message |-> "Invalid query"],
     [status |-> 403, message |-> "Forbidden"],
     [status |-> 404, message |-> "Monitor not found"]}

\* the monitor definitions deploy_alert is given
AlertDefinitions == {[name |-> "cpu"], [name |-> "disk"]}

InitActions ==
    /\ apc = "idle"
    /\ request = <<>>
    /\ vendor_calls = 0
    /\ failure = <<>>

\* the request goes out: the with block of mute_monitor, unmute_monitor and
\* deploy_alert makes its one vendor call
Issue(req) ==
    /\ apc = "idle"
    /\ request' = req
    /\ vendor_calls' = vendor_calls + 1
    /\ apc' = "called"
    /\ UNCHANGED failure
    /\ UNCHANGED notActionVars

\* mute_monitor(monitor_id, groups, end): POST /api/v1/monitor/{id}/mute with
\* the groups joined by commas, "*" sent as ""
MuteMonitor ==
    \E m \in MonitorIds, groups \in GroupLists \cup {<<Star>>}, end \in {3600, 86400} :
        LET joined == Join(groups, ",")
        IN  Issue([op |-> "mute_monitor", monitor_id |-> m, end |-> end,
                   scope |-> IF joined = Star THEN <<>> ELSE joined])

\* unmute_monitor(monitor_id, groups): POST /api/v1/monitor/{id}/unmute
UnmuteMonitor ==
    \E m \in MonitorIds, groups \in GroupLists \cup {<<Star>>} :
        Issue([op |-> "unmute_monitor", monitor_id |-> m, scope |-> Join(groups, ",")])

\* deploy_alert(alert): create_monitor(body=Monitor(**alert))
DeployAlert ==
    \E alert \in AlertDefinitions :
        Issue([op |-> "deploy_alert", body |-> alert])

\* the vendor call succeeds and the action returns
VendorSucceeds ==
    /\ apc = "called"
    /\ apc' = "returned"
    /\ UNCHANGED <<request, vendor_calls, failure>>
    /\ UNCHANGED notActionVars

\* the vendor call raises ApiException e.  mute_monitor and unmute_monitor
\* have no except clause; deploy_alert raises Exception({"message": ...})
VendorFails ==
    /\ apc = "called"
    /\ \E e \in VendorErrors :
        failure' = IF request.op = "deploy_alert"
                   THEN [message |-> e.message]
                   ELSE [status |-> e.status, message |-> e.message]
    /\ apc' = "raised"
    /\ UNCHANGED <<request, vendor_calls>>
    /\ UNCHANGED notActionVars

NextActions == MuteMonitor \/ UnmuteMonitor \/ DeployAlert \/ VendorSucceeds \/ VendorFails

\* C10: when the vendor call of mute_monitor, unmute_monitor or deploy_alert
\* fails, the operation has made that one vendor call only and the caller's
\* failure carries the vendor's status code and the vendor's message
C10_ActionFailuresCarryStatusAndMessage ==
    apc = "raised" =>
        /\ vendor_calls = 1
        /\ \E e \in VendorErrors :
            /\ "status" \in DOMAIN failure /\ failure.status = e.status
            /\ "message" \in DOMAIN failure /\ failure.message = e.message

---------------------------------------------------------------------------
(* setup_webhook *)

KEEP_DATADOG_WEBHOOK_INTEGRATION_NAME ==
    <<"k", "e", "e", "p", "-", "d", "a", "t", "a", "d", "o", "g", "-",
      "w", "e", "b", "h", "o", "o", "k", "-",
      "i", "n", "t", "e", "g", "r", "a", "t", "i", "o", "n">>

\* f"{KEEP_DATADOG_WEBHOOK_INTEGRATION_NAME}-{tenant_id}"
webhook_name(tenant_id) == KEEP_DATADOG_WEBHOOK_INTEGRATION_NAME \o <<"-">> \o tenant_id

\* f"@webhook-{webhook_name}"
Mention(name) == <<"@", "w", "e", "b", "h", "o", "o", "k", "-">> \o name

\* needle in s, for strs
Substring(needle, s) ==
    \E n \in 0..(Len(s) - Len(needle)) : SubSeq(s, n + 1, n + Len(needle)) = needle

Callers == {1, 2}

TenantIds == {<<"a">>, <<"a", "b">>}

Urls == {"https://keep/u1", "https://keep/u2"}

ApiKeys == {"k1", "k2"}

\* the monitors of the account, in the order list_monitors returns them
PatchedMonitorIds == <<1, 2>>

InitWebhook ==
    /\ webhooks = {}
    /\ monitor_message = [m \in {1, 2} |-> <<"c", "p", "u">>]
    /\ hpc = [c \in Callers |-> "idle"]
    /\ args = [c \in Callers |-> <<>>]
    /\ issued = [c \in Callers |-> <<>>]
    /\ preceding = [c \in Callers |-> {}]
    /\ monitors = [c \in Callers |-> <<>>]
    /\ mi = [c \in Callers |-> 1]

Registered(name) == {w \in webhooks : w.name = name}

\* the registrations after update_webhooks_integration(name, url, X-API-KEY)
Updated(name, url, api_key) ==
    {IF w.name = name THEN [name |-> name, url |-> url, api_key |-> api_key] ELSE w :
        w \in webhooks}

\* if webhook.url != keep_api_url
NeedsUpdate_Always(webhook, keep_api_url) == TRUE

NeedsUpdate(webhook, keep_api_url) == webhook.url # keep_api_url

\* if "Webhook already exists" in exc.body.get("errors")
AlreadyExists_Never(errors) == FALSE

AlreadyExists(errors) == InSeq(errors, "Webhook already exists")

\* caller c's call goes to position `to`, having made vendor call `op`
\* answered `answer`
Step(c, op, answer, to) ==
    /\ hpc' = [hpc EXCEPT ![c] = to]
    /\ issued' = [issued EXCEPT ![c] = Append(@, <<op, answer>>)]

\* the position after "Webhook created or updated": if setup_alerts
AfterWebhook(c) == IF args[c].setup_alerts THEN "list_monitors" ELSE "returned"

\* setup_webhook(tenant_id, keep_api_url, api_key, setup_alerts) is called
SetupWebhook(c) ==
    /\ hpc[c] = "idle"
    /\ \E t \in TenantIds, u \in Urls, k \in ApiKeys, sa \in BOOLEAN :
        args' = [args EXCEPT ![c] =
                    [tenant_id |-> t, keep_api_url |-> u, api_key |-> k, setup_alerts |-> sa]]
    /\ preceding' = [preceding EXCEPT ![c] = {d \in Callers : hpc[d] = "returned"}]
    /\ hpc' = [hpc EXCEPT ![c] = "get"]
    /\ UNCHANGED <<webhooks, monitor_message, issued, monitors, mi>>
    /\ UNCHANGED notHookVars

\* webhook = api.get_webhooks_integration(webhook_name=webhook_name)
GetWebhook(c) ==
    /\ hpc[c] = "get"
    /\ LET name == webhook_name(args[c].tenant_id)
       IN  \/ \E w \in Registered(name) :
                 Step(c, "get", "found",
                      IF NeedsUpdate(w, args[c].keep_api_url) THEN "update"
                      ELSE AfterWebhook(c))
           \/ Registered(name) = {} /\ Step(c, "get", "NotFound", "create")
           \/ Step(c, "get", "Forbidden", "create")
           \/ Step(c, "get", "ApiException", "raised")
    /\ UNCHANGED <<webhooks, monitor_message, args, preceding, monitors, mi>>
    /\ UNCHANGED notHookVars

\* api.update_webhooks_integration(webhook.name, ...) of the try block: a
\* ForbiddenException it raises is caught by the except clause of the lookup
UpdateWebhook(c) ==
    /\ hpc[c] = "update"
    /\ \/ /\ webhooks' = Updated(webhook_name(args[c].tenant_id),
                                 args[c].keep_api_url, args[c].api_key)
          /\ Step(c, "update", "ok", AfterWebhook(c))
       \/ Step(c, "update", "Forbidden", "create") /\ UNCHANGED webhooks
       \/ Step(c, "update", "ApiException", "raised") /\ UNCHANGED webhooks
    /\ UNCHANGED <<monitor_message, args, preceding, monitors, mi>>
    /\ UNCHANGED notHookVars

\* api.create_webhooks_integration(...): the vendor refuses a name that is
\* registered; any other failure is raised again
CreateWebhook(c) ==
    /\ hpc[c] = "create"
    /\ LET name == webhook_name(args[c].tenant_id)
       IN  \/ /\ Registered(name) = {}
              /\ webhooks' = webhooks \cup
                     {[name |-> name, url |-> args[c].keep_api_url,
                       api_key |-> args[c].api_key]}
              /\ Step(c, "create", "ok", AfterWebhook(c))
           \/ /\ \E errors \in {<<"Webhook already exists">>, <<"Forbidden">>} :
                    /\ errors = <<"Webhook already exists">> => Registered(name) # {}
                    /\ Step(c, "create", errors[1],
                            IF AlreadyExists(errors) THEN "fallback" ELSE "raised")
              /\ UNCHANGED webhooks
    /\ UNCHANGED <<monitor_message, args, preceding, monitors, mi>>
    /\ UNCHANGED notHookVars

\* api.update_webhooks_integration(webhook_name, ...) after "Webhook already
\* exists": an ApiException is logged, not raised
FallbackUpdate(c) ==
    /\ hpc[c] = "fallback"
    /\ \/ /\ webhooks' = Updated(webhook_name(args[c].tenant_id),
                                 args[c].keep_api_url, args[c].api_key)
          /\ Step(c, "update", "ok", AfterWebhook(c))
       \/ Step(c, "update", "ApiException", AfterWebhook(c)) /\ UNCHANGED webhooks
    /\ UNCHANGED <<monitor_message, args, preceding, monitors, mi>>
    /\ UNCHANGED notHookVars

\* monitors = api.list_monitors()
ListMonitors(c) ==
    /\ hpc[c] = "list_monitors"
    /\ \/ /\ monitors' = [monitors EXCEPT ![c] =
                             [n \in DOMAIN PatchedMonitorIds |->
                                 [id |-> PatchedMonitorIds[n],
                                  message |-> monitor_message[PatchedMonitorIds[n]]]]]
          /\ mi' = [mi EXCEPT ![c] = 1]
          /\ Step(c, "list_monitors", "ok", "patch")
       \/ /\ Step(c, "list_monitors", "ApiException", "raised")
          /\ UNCHANGED <<monitors, mi>>
    /\ UNCHANGED <<webhooks, monitor_message, args, preceding>>
    /\ UNCHANGED notHookVars

\* caller c's call has made update_monitor(id, ...), answered `answer`
StepMonitor(c, id, answer, to) ==
    /\ hpc' = [hpc EXCEPT ![c] = to]
    /\ issued' = [issued EXCEPT ![c] = Append(@, <<"update_monitor", answer, id>>)]

\* the for loop over monitors without its try: a failure of update_monitor
\* leaves setup_webhook
PatchMonitor_FailureRaises(c) ==
    /\ hpc[c] = "patch"
    /\ mi[c] <= Len(monitors[c])
    /\ LET mon      == monitors[c][mi[c]]
           mention  == Mention(webhook_name(args[c].tenant_id))
       IN  IF ~Substring(mention, mon.message)
           THEN \/ /\ monitor_message' =
                          [monitor_message EXCEPT ![mon.id] = mon.message \o <<" ">> \o mention]
                   /\ StepMonitor(c, mon.id, "ok", "patch")
                \/ /\ StepMonitor(c, mon.id, "ApiException", "raised")
                   /\ UNCHANGED monitor_message
           ELSE UNCHANGED <<monitor_message, hpc, issued>>
    /\ mi' = [mi EXCEPT ![c] = @ + 1]
    /\ UNCHANGED <<webhooks, args, preceding, monitors>>
    /\ UNCHANGED notHookVars

\* one turn of the for loop over monitors: update_monitor unless the message
\* mentions the webhook; a failure is logged and the loop goes on
PatchMonitor(c) ==
    /\ hpc[c] = "patch"
    /\ mi[c] <= Len(monitors[c])
    /\ LET mon      == monitors[c][mi[c]]
           mention  == Mention(webhook_name(args[c].tenant_id))
       IN  IF ~Substring(mention, mon.message)
           THEN \/ /\ monitor_message' =
                          [monitor_message EXCEPT ![mon.id] = mon.message \o <<" ">> \o mention]
                   /\ StepMonitor(c, mon.id, "ok", "patch")
                \/ /\ StepMonitor(c, mon.id, "ApiException", "patch")
                   /\ UNCHANGED monitor_message
           ELSE UNCHANGED <<monitor_message, hpc, issued>>
    /\ mi' = [mi EXCEPT ![c] = @ + 1]
    /\ UNCHANGED <<webhooks, args, preceding, monitors>>
    /\ UNCHANGED notHookVars

\* "Monitors updated": setup_webhook returns
ReturnFromSetup(c) ==
    /\ hpc[c] = "patch"
    /\ mi[c] > Len(monitors[c])
    /\ hpc' = [hpc EXCEPT ![c] = "returned"]
    /\ UNCHANGED <<webhooks, monitor_message, args, issued, preceding, monitors, mi>>
    /\ UNCHANGED notHookVars

NextWebhook ==
    \E c \in Callers :
        \/ SetupWebhook(c)
        \/ GetWebhook(c)
        \/ UpdateWebhook(c)
        \/ CreateWebhook(c)
        \/ FallbackUpdate(c)
        \/ ListMonitors(c)
        \/ PatchMonitor(c)
        \/ ReturnFromSetup(c)

---------------------------------------------------------------------------
(* Claims about setup_webhook *)

SameTarget(c, d) ==
    /\ args[c].tenant_id = args[d].tenant_id
    /\ args[c].keep_api_url = args[d].keep_api_url

\* the vendor calls of the given kinds that call c has made
Made(c, ops) == {n \in DOMAIN issued[c] : issued[c][n][1] \in ops}

\* the vendor holds exactly one registration of the name, and its URL is url
HoldsOne(name, url) ==
    /\ Cardinality(Registered(name)) = 1
    /\ \A w \in Registered(name) : w.url = url

NoCallFailed(c) ==
    \A n \in DOMAIN issued[c] : issued[c][n][2] \in {"found", "NotFound", "ok"}

\* the lookup of call c has not been refused
LookupAnswered(c) == issued[c] # <<>> => issued[c][1][2] \in {"found", "NotFound"}

LostRace(c) ==
    \E n \in DOMAIN issued[c] : issued[c][n] = <<"create", "Webhook already exists">>

BothNotFound(c, d) ==
    /\ issued[c] # <<>> /\ issued[c][1] = <<"get", "NotFound">>
    /\ issued[d] # <<>> /\ issued[d][1] = <<"get", "NotFound">>

Finished(c) == hpc[c] \in {"returned", "raised"}

\* C5: when two calls for one tenant id both look up not-found and the
\* create of one is refused with "Webhook already exists", that call falls
\* back to update and does not raise for it (it raises only if its own
\* list_monitors fails), and once both calls have finished the vendor holds
\* exactly one registration of the derived name, with the URL of one of them
C5_ConcurrentProvisioning ==
    \A c, d \in Callers :
        (/\ c # d /\ BothNotFound(c, d)
         /\ args[c].tenant_id = args[d].tenant_id
         /\ LostRace(d))
        => /\ \A n \in Made(d, {"create"}) :
                  hpc[d] = "fallback" \/ (n < Len(issued[d]) /\ issued[d][n + 1][1] = "update")
           /\ hpc[d] = "raised" =>
                  issued[d][Len(issued[d])] = <<"list_monitors", "ApiException">>
           /\ (Finished(c) /\ Finished(d)) =>
                  /\ Cardinality(Registered(webhook_name(args[d].tenant_id))) = 1
                  /\ \A w \in Registered(webhook_name(args[d].tenant_id)) :
                         w.url \in {args[c].keep_api_url, args[d].keep_api_url}

\* both calls returned after the race, and the registration has the URL of
\* the call whose create was refused
C5_Witness ==
    /\ BothNotFound(1, 2) /\ LostRace(2)
    /\ args[1].tenant_id = args[2].tenant_id
    /\ args[1].keep_api_url # args[2].keep_api_url
    /\ hpc[1] = "returned" /\ hpc[2] = "returned"
    /\ HoldsOne(webhook_name(args[2].tenant_id), args[2].keep_api_url)

\* the calls that have begun are all for one tenant id
OneTenant ==
    \A c, d \in Callers :
        (hpc[c] # "idle" /\ hpc[d] # "idle") => args[c].tenant_id = args[d].tenant_id

\* f"@webhook-{webhook_name}" of call c
MentionOf(c) == Mention(webhook_name(args[c].tenant_id))

\* the number of places of s at which needle occurs
Occurrences(needle, s) ==
    Cardinality({n \in 0..(Len(s) - Len(needle)) : SubSeq(s, n + 1, n + Len(needle)) = needle})

\* the ids of the monitors call c has called update_monitor for
UpdatesOf(c) == {issued[c][n][3] : n \in Made(c, {"update_monitor"})}

\* the monitors among the first k that list_monitors returned to call c whose
\* message, as returned, mentions (or does not mention) the webhook of c
Listed(c, k, mentioned) ==
    {monitors[c][n].id : n \in {n \in 1..k :
        Substring(MentionOf(c), monitors[c][n].message) = mentioned}}

\* every monitor's message contains the mention of the tenant at most once
MentionedAtMostOnce ==
    \A c \in Callers : hpc[c] # "idle" =>
        \A m \in DOMAIN monitor_message :
            Occurrences(MentionOf(c), monitor_message[m]) <= 1

\* a failed update_monitor does not make the call raise, and every monitor
\* the loop has passed whose message lacked the mention got its update call
FailureNeverFatal ==
    \A c \in Callers : hpc[c] # "idle" =>
        /\ hpc[c] = "raised" => issued[c][Len(issued[c])][1] # "update_monitor"
        /\ Listed(c, mi[c] - 1, FALSE) \subseteq UpdatesOf(c)

\* call c makes an update_monitor call for monitor m in this step
UpdateCall(c, m) ==
    /\ Len(issued'[c]) = Len(issued[c]) + 1
    /\ issued'[c][Len(issued'[c])][1] = "update_monitor"
    /\ issued'[c][Len(issued'[c])][3] = m

\* C12 as stated: after any number of setup_webhook calls for one tenant,
\* every monitor's message contains the mention at most once; a monitor whose
\* message already mentions the webhook receives no update call; a failure
\* patching one monitor does not make setup_webhook raise nor keep the
\* remaining monitors from being patched
C12_NoUpdateOfMentioningMonitor ==
    /\ [](OneTenant => (MentionedAtMostOnce /\ FailureNeverFatal))
    /\ [][OneTenant =>
            \A c \in Callers : \A m \in DOMAIN monitor_message :
                UpdateCall(c, m) => ~Substring(MentionOf(c), monitor_message[m])]_vars

\* C12, amended: after any number of setup_webhook calls for one tenant,
\* every monitor's message contains the mention at most once; a monitor whose
\* message mentioned the webhook when the call listed the monitors receives
\* no update call from that call; a failure patching one monitor does not
\* make setup_webhook raise nor keep the remaining monitors from being patched
C12_PatchingIdempotentNeverFatal ==
    OneTenant =>
        /\ MentionedAtMostOnce
        /\ \A c \in Callers : hpc[c] # "idle" =>
               Listed(c, Len(monitors[c]), TRUE) \cap UpdatesOf(c) = {}
        /\ FailureNeverFatal

\* call 1 failed to patch monitor 1, patched monitor 2 and returned; call 2,
\* for the same tenant, then patched monitor 1 and left monitor 2 alone
C12_Witness ==
    /\ OneTenant /\ 1 \in preceding[2]
    /\ hpc[1] = "returned" /\ hpc[2] = "returned"
    /\ \E n \in DOMAIN issued[1] :
           /\ issued[1][n] = <<"update_monitor", "ApiException", 1>>
           /\ n < Len(issued[1])
           /\ issued[1][n + 1] = <<"update_monitor", "ok", 2>>
    /\ UpdatesOf(2) = {1}
    /\ \A m \in DOMAIN monitor_message :
           Occurrences(MentionOf(2), monitor_message[m]) = 1

\* no other call overlaps call c or follows it: every other caller's call
\* had returned when call c began, or has not begun
Alone(c) == \A d \in Callers \ {c} : hpc[d] = "idle" \/ d \in preceding[c]

\* C15: after a setup_webhook call that returns without raising, the
\* registration keep-datadog-webhook-integration-<tenant id> exists with the
\* URL and the X-API-KEY of that call, also when it existed before with the
\* same URL and another secret, and when the fall-back update failed
C15_ReturnedCallLeavesItsRegistration ==
    \A c \in Callers :
        (hpc[c] = "returned" /\ Alone(c))
        => \E w \in Registered(webhook_name(args[c].tenant_id)) :
               /\ w.url = args[c].keep_api_url
               /\ w.api_key = args[c].api_key

\* s contains the mention as a whole: followed by a space or by the end of s
CompleteMention(mention, s) ==
    \E n \in 0..(Len(s) - Len(mention)) :
        /\ SubSeq(s, n + 1, n + Len(mention)) = mention
        /\ (n + Len(mention) = Len(s) \/ s[n + Len(mention) + 1] = " ")

\* update_monitor of call c for monitor m failed
UpdateFailed(c, m) ==
    \E n \in DOMAIN issued[c] : issued[c][n] = <<"update_monitor", "ApiException", m>>

\* C16: after a setup_webhook call with patch_monitors enabled for tenant T,
\* the message of every monitor whose update did not fail contains
\* @webhook-keep-datadog-webhook-integration-T as a complete mention, also
\* when it mentioned beforehand the webhook of a tenant whose id T is a
\* proper prefix of
C16_PatchedPerTenant ==
    \A c \in Callers :
        (hpc[c] = "returned" /\ args[c].setup_alerts /\ Alone(c))
        => \A m \in DOMAIN monitor_message :
               ~UpdateFailed(c, m) => CompleteMention(MentionOf(c), monitor_message[m])

---------------------------------------------------------------------------
(* Specifications: each runs one operation of the provider from the state  *)
(* after construction                                                       *)

Init == InitAlerts /\ InitPair /\ InitFormat /\ InitScopes /\ InitActions /\ InitWebhook

SpecAlerts == Init /\ [][NextAlerts]_vars

SpecPair == Init /\ [][NextPair]_vars

SpecFormat == Init /\ [][NextFormat]_vars

SpecScopes == Init /\ [][NextScopes]_vars

SpecActions == Init /\ [][NextActions]_vars

SpecWebhook == Init /\ [][NextWebhook]_vars

====
